---- MODULE Spec2Model ----
(***************************************************************************)
(* Model of HuffmanEncoding.cpp: frequency analysis, Huffman tree          *)
(* construction on an explicit node heap, code table derivation, the       *)
(* bit-level encoder and decoder, the password-obfuscated header codec     *)
(* and the two orchestrators compress and decompress.                      *)
(***************************************************************************)
EXTENDS Integers, Sequences, FiniteSets, TLC

(***************************************************************************)
(* Bounds of the model.                                                    *)
(***************************************************************************)
\* longest byte source that is compressed
MaxLen == 3
\* largest small count of a caller-supplied frequency table
MaxCount == 2
\* largest entry count for which a header read is followed entry by entry
MaxEntries == 3
\* most bytes a compressed file loses at its end
MaxCut == 2

\* byte values of the sources: a letter, another letter and byte 255
Bytes == {97, 98, 255}
\* passwords, as sequences of character codes: "" and "pw"
Passwords == {<< >>, <<112, 119>>}
\* a count that uses all four bytes of the 32-bit frequency field
BigCount == 16909060

(***************************************************************************)
(* Program constants.                                                      *)
(***************************************************************************)
PSEUDO_EOF == 256
NOT_A_CHAR == 257
EOF == -1
NULL == 0
MaxInt32 == 2147483647
\* std::minstd_rand0, the default_random_engine of libstdc++
LcgA == 16807
LcgQ == 127773
LcgR == 2836

(***************************************************************************)
(* 32-bit int arithmetic.                                                  *)
(***************************************************************************)
\* a + b on int; a signed overflow wraps round, as the builds produce it
Add32(a, b) ==
    IF a > 0 /\ b > 0 /\ a > MaxInt32 - b
      THEN ((a - MaxInt32) - 1) + ((b - MaxInt32) - 1)
      ELSE IF a < 0 /\ b < 0 /\ a < ((0 - MaxInt32) - 1) - b
             THEN ((a + MaxInt32) + 1) + ((b + MaxInt32) + 1)
             ELSE a + b

\* (v >> i) & 1 on a 32-bit int
Bit(v, i) ==
    IF i = 31 THEN (IF v < 0 THEN 1 ELSE 0) ELSE (v \div (2 ^ i)) % 2

\* (v << n) | low on a 32-bit int, for 0 <= v < 2^(32-n) and 0 <= low < 2^n:
\* what n rounds of "value = (value << 1) | bit" make of value v
ShiftOr(v, n, low) ==
    LET lim == 2 ^ (31 - n)
    IN  IF v >= lim
          THEN (((v - lim) * (2 ^ n) + low) - MaxInt32) - 1
          ELSE v * (2 ^ n) + low

\* the bits of v that a loop "for (i = width - 1; i >= 0; i--)" produces
IntBits(v, width) == [k \in 1..width |-> Bit(v, width - k)]

(***************************************************************************)
(* Map<K, V>: a function on its key set, iterated in ascending key order.  *)
(***************************************************************************)
EmptyMap == [k \in {} |-> 0]

Put(m, k, v) == [x \in (DOMAIN m) \cup {k} |-> IF x = k THEN v ELSE m[x]]

\* m[k] of a Map<ext_char, int>: a missing key reads as 0
GetInt(m, k) == IF k \in DOMAIN m THEN m[k] ELSE 0

\* m[k] of a Map<ext_char, string>: a missing key reads as the empty string
GetString(m, k) == IF k \in DOMAIN m THEN m[k] ELSE << >>

RECURSIVE SortedKeys(_)
SortedKeys(S) ==
    IF S = {} THEN << >>
    ELSE LET m == CHOOSE x \in S : \A y \in S : x <= y
         IN  <<m>> \o SortedKeys(S \ {m})

(***************************************************************************)
(* Byte source and bit channel.                                            *)
(***************************************************************************)
\* a get() that reads the byte as a signed char: byte 255 reads as EOF
get_signedChar(file, i) ==
    IF i > Len(file) THEN EOF
    ELSE IF file[i] >= 128 THEN file[i] - 256 ELSE file[i]

\* ext_char ch = file.get(): the byte as an int in 0..255, or EOF
get(file, i) == IF i > Len(file) THEN EOF ELSE file[i]

\* readBit(): the next bit, or EOF once the stream is exhausted
readBit(bits, pos) == IF pos > Len(bits) THEN EOF ELSE bits[pos]

\* bool bit = infile.readBit(): any nonzero int, EOF included, is true
ToBool(x) == IF x # 0 THEN 1 ELSE 0

\* the bits of the bytes behind an obstream: the last byte is zero-filled
FileBits(bits) ==
    bits \o [k \in 1..((8 - (Len(bits) % 8)) % 8) |-> 0]

(***************************************************************************)
(* PasswordStream: a generator seeded from the hash of the password.       *)
(***************************************************************************)
\* hash<string>{}(password): a deterministic string hash
RECURSIVE hashString(_, _)
hashString(password, h) ==
    IF password = << >> THEN h
    ELSE hashString(Tail(password), (h * 31 + Head(password)) % MaxInt32)

\* PasswordStream(password): the state of the engine after engine.seed(seed)
PasswordStream(password) ==
    LET seed == hashString(password, 7) % MaxInt32
    IN  IF seed = 0 THEN 1 ELSE seed

\* engine(): the next state, which is also the value returned
engine(x) ==
    LET t == LcgA * (x % LcgQ) - LcgR * (x \div LcgQ)
    IN  IF t < 0 THEN t + MaxInt32 ELSE t

\* nextBit(originalBit): originalBit ^ (engine() & 1), for the state x the
\* engine has been advanced to
nextBit(x, originalBit) == (originalBit + (x % 2)) % 2

\* for (k = i; k > i - n; k--) writeBit(stream.nextBit((v >> k) & 1)): the
\* bits written and the stream after them. The n rounds are split in halves,
\* which keeps the evaluation shallow.
RECURSIVE writeBits(_, _, _, _)
writeBits(x, v, i, n) ==
    IF n = 1
      THEN LET x2 == engine(x)
           IN  [bits |-> <<nextBit(x2, Bit(v, i))>>, x |-> x2]
      ELSE LET h  == n \div 2
               hi == writeBits(x, v, i, h)
               lo == writeBits(hi.x, v, i - h, n - h)
           IN  [bits |-> hi.bits \o lo.bits, x |-> lo.x]

\* for (int i = width - 1; i >= 0; i--) writeBit(stream.nextBit((v >> i) & 1))
writeField(x, v, width) == writeBits(x, v, width - 1, width)

(***************************************************************************)
(* getFrequencyTable                                                       *)
(***************************************************************************)
RECURSIVE countLoop(_, _, _)
countLoop(file, i, freqMap) ==
    LET ch == get(file, i)
    IN  IF ch = EOF THEN freqMap
        ELSE countLoop(file, i + 1, Put(freqMap, ch, GetInt(freqMap, ch) + 1))

getFrequencyTable(file) == Put(countLoop(file, 1, EmptyMap), PSEUDO_EOF, 1)

(***************************************************************************)
(* The node heap, the priority queue and buildEncodingTree.                *)
(* A Node* is an index into the heap, nullptr is NULL.                     *)
(***************************************************************************)
Node(ch, z, o, w) == [character |-> ch, zero |-> z, one |-> o, weight |-> w]

IsLeaf(heap, n) == heap[n].zero = NULL /\ heap[n].one = NULL

\* the index of the entry dequeue() removes: one of lowest priority; among
\* equal priorities the oldest ("fifo") or the newest ("lifo")
dequeue(queue, tie) ==
    LET low == {i \in 1..Len(queue) :
                  \A j \in 1..Len(queue) : queue[i].priority <= queue[j].priority}
    IN  IF tie = "fifo"
          THEN CHOOSE i \in low : \A j \in low : i <= j
          ELSE CHOOSE i \in low : \A j \in low : i >= j

Remove(queue, i) == SubSeq(queue, 1, i - 1) \o SubSeq(queue, i + 1, Len(queue))

RECURSIVE fillLoop(_, _, _, _, _)
fillLoop(keys, i, frequencies, heap, queue) ==
    IF i > Len(keys) THEN [heap |-> heap, queue |-> queue]
    ELSE LET ch   == keys[i]
             freq == frequencies[ch]
             heap2 == Append(heap, Node(ch, NULL, NULL, freq))
         IN  fillLoop(keys, i + 1, frequencies, heap2,
                      Append(queue, [value |-> Len(heap2), priority |-> freq]))

fillQueue(frequencies) ==
    fillLoop(SortedKeys(DOMAIN frequencies), 1, frequencies, << >>, << >>)

\* a parent that takes the weight of its zero-child alone
parentWeight_zeroOnly(heap, node1, node2) == heap[node1].weight

\* parentNode->weight = node1->weight + node2->weight
parentWeight(heap, node1, node2) == Add32(heap[node1].weight, heap[node2].weight)

\* a parent enqueued under the priority of its zero-child
parentPriority_ofChild(heap, parentNode) == heap[heap[parentNode].zero].weight

\* queue.enqueue(parentNode, parentNode->weight)
parentPriority(heap, parentNode) == heap[parentNode].weight

RECURSIVE mergeLoop(_, _, _)
mergeLoop(heap, queue, tie) ==
    IF Len(queue) > 1
      THEN LET i1    == dequeue(queue, tie)
               node1 == queue[i1].value
               q1    == Remove(queue, i1)
               i2    == dequeue(q1, tie)
               node2 == q1[i2].value
               q2    == Remove(q1, i2)
               heap2 == Append(heap, Node(NOT_A_CHAR, node1, node2,
                                          parentWeight(heap, node1, node2)))
               parentNode == Len(heap2)
           IN  mergeLoop(heap2,
                         Append(q2, [value |-> parentNode,
                                     priority |-> parentPriority(heap2, parentNode)]),
                         tie)
      ELSE [heap |-> heap, root |-> queue[dequeue(queue, tie)].value]

\* the heap of the nodes allocated and the root returned
buildEncodingTree(frequencies, tie) ==
    LET q == fillQueue(frequencies)
    IN  mergeLoop(q.heap, q.queue, tie)

\* the nodes deleted, in the order freeTreeRec deletes them
RECURSIVE freeTreeRec(_, _)
freeTreeRec(heap, root) ==
    IF root = NULL THEN << >>
    ELSE freeTreeRec(heap, heap[root].zero) \o freeTreeRec(heap, heap[root].one)
           \o <<root>>

freeTree(heap, root) == freeTreeRec(heap, root)

(***************************************************************************)
(* fillMap, encodeFile and decodeFile.                                     *)
(***************************************************************************)
\* a fillMap that extends the path by "0" towards both children
RECURSIVE fillMap_samePath(_, _, _, _)
fillMap_samePath(encodeMap, heap, encodingTree, path) ==
    IF encodingTree = NULL THEN encodeMap
    ELSE IF IsLeaf(heap, encodingTree)
      THEN Put(encodeMap, heap[encodingTree].character, path)
      ELSE fillMap_samePath(
             fillMap_samePath(encodeMap, heap, heap[encodingTree].zero,
                              Append(path, "0")),
             heap, heap[encodingTree].one, Append(path, "0"))

RECURSIVE fillMap(_, _, _, _)
fillMap(encodeMap, heap, encodingTree, path) ==
    IF encodingTree = NULL THEN encodeMap
    ELSE IF IsLeaf(heap, encodingTree)
      THEN Put(encodeMap, heap[encodingTree].character, path)
      ELSE fillMap(fillMap(encodeMap, heap, heap[encodingTree].zero,
                           Append(path, "0")),
                   heap, heap[encodingTree].one, Append(path, "1"))

\* for (char c : code) outfile.writeBit(c == '1')
CodeBits(code) == [k \in 1..Len(code) |-> IF code[k] = "1" THEN 1 ELSE 0]

RECURSIVE encodeLoop(_, _, _, _)
encodeLoop(infile, i, encodeMap, out) ==
    LET ch == get(infile, i)
    IN  IF ch = EOF THEN out
        ELSE encodeLoop(infile, i + 1, encodeMap,
                        out \o CodeBits(GetString(encodeMap, ch)))

\* the bits encodeFile writes; writeBit on a stream that is not open is an
\* error, and no byte of the source is one
encodeFile(infile, heap, encodingTree, open) ==
    LET encodeMap == fillMap(EmptyMap, heap, encodingTree, << >>)
        bits == encodeLoop(infile, 1, encodeMap, << >>)
                  \o CodeBits(GetString(encodeMap, PSEUDO_EOF))
    IN  IF ~open /\ bits # << >>
          THEN [status |-> "error", bits |-> << >>, encodeMap |-> encodeMap]
          ELSE [status |-> "returned", bits |-> bits, encodeMap |-> encodeMap]

\* a descent that takes the zero-child on a one bit
descend_swapped(heap, curr, bit) ==
    IF bit = 1 THEN heap[curr].zero ELSE heap[curr].one

\* curr = bit ? curr->one : curr->zero
descend(heap, curr, bit) ==
    IF bit = 1 THEN heap[curr].one ELSE heap[curr].zero

\* the leaf the decoder reaches from n on one bits alone
RECURSIVE onesLeaf(_, _)
onesLeaf(heap, n) == IF IsLeaf(heap, n) THEN n ELSE onesLeaf(heap, descend(heap, n, 1))

\* The loop of decodeFile from cursor curr and stream position pos. Once the
\* stream is exhausted every readBit is EOF, so every bit is true: the loop
\* then ends at the sentinel if the all-ones leaf is the sentinel and emits
\* that leaf's character for ever if it is not.
RECURSIVE decodeLoop(_, _, _, _, _, _)
decodeLoop(bits, pos, heap, encodingTree, curr, out) ==
    IF IsLeaf(heap, curr)
      THEN IF heap[curr].character = PSEUDO_EOF
             THEN [status |-> "returned", out |-> out, pos |-> pos]
             ELSE IF (pos > Len(bits)
                        /\ heap[onesLeaf(heap, encodingTree)].character # PSEUDO_EOF)
                     \/ IsLeaf(heap, encodingTree)
                    THEN [status |-> "diverges",
                          out |-> Append(out, heap[curr].character), pos |-> pos]
                    ELSE decodeLoop(bits, pos, heap, encodingTree, encodingTree,
                                    Append(out, heap[curr].character))
      ELSE decodeLoop(bits, pos + 1, heap, encodingTree,
                      descend(heap, curr, ToBool(readBit(bits, pos))), out)

decodeFile(bits, pos, heap, encodingTree) ==
    decodeLoop(bits, pos, heap, encodingTree, encodingTree, << >>)

(***************************************************************************)
(* The header codec.                                                       *)
(***************************************************************************)
\* a size that counts the sentinel too
headerSize_withSentinel(frequencies) == Cardinality(DOMAIN frequencies)

\* int size = frequencies.size() - 1
headerSize(frequencies) == Cardinality(DOMAIN frequencies) - 1

\* the entries but the sentinel's, each a character and then a frequency
RECURSIVE writeEntries(_, _, _, _)
writeEntries(x, keys, i, frequencies) ==
    IF i > Len(keys) THEN [bits |-> << >>, x |-> x]
    ELSE IF keys[i] = PSEUDO_EOF THEN writeEntries(x, keys, i + 1, frequencies)
    ELSE LET ch   == writeField(x, keys[i], 8)
             freq == writeField(ch.x, frequencies[keys[i]], 32)
             rest == writeEntries(freq.x, keys, i + 1, frequencies)
         IN  [bits |-> ch.bits \o freq.bits \o rest.bits, x |-> rest.x]

\* the bits of the header and the stream after them
headerBits(frequencies, password) ==
    LET size    == writeField(PasswordStream(password), headerSize(frequencies), 32)
        entries == writeEntries(size.x, SortedKeys(DOMAIN frequencies), 1,
                                frequencies)
    IN  [bits |-> size.bits \o entries.bits, x |-> entries.x]

\* the bits written; writeBit on a stream that is not open is an error
writeEncryptedFileHeader(frequencies, password, open) ==
    IF PSEUDO_EOF \notin DOMAIN frequencies \/ ~open
      THEN [status |-> "error", bits |-> << >>]
      ELSE [status |-> "returned", bits |-> headerBits(frequencies, password).bits]

\* "width" bits read and decrypted one by one into value, the bits split in
\* halves: the value read and the stream after it
RECURSIVE readField(_, _, _, _)
readField(bits, pos, x, width) ==
    IF width = 1
      THEN LET x2 == engine(x)
           IN  [value |-> nextBit(x2, ToBool(readBit(bits, pos))), x |-> x2]
      ELSE LET h  == width \div 2
               hi == readField(bits, pos, x, h)
               lo == readField(bits, pos + h, hi.x, width - h)
           IN  [value |-> ShiftOr(hi.value, width - h, lo.value), x |-> lo.x]

\* the entries as they are read, in order: a character and a frequency each
RECURSIVE readEntries(_, _, _, _, _)
readEntries(bits, pos, x, i, numValues) ==
    IF i >= numValues THEN << >>
    ELSE LET ch   == readField(bits, pos, x, 8)
             freq == readField(bits, pos + 8, ch.x, 32)
         IN  <<[ch |-> ch.value, freq |-> freq.value]>>
               \o readEntries(bits, pos + 40, freq.x, i + 1, numValues)

\* result[ch] = freq, entry after entry
RECURSIVE storeEntries(_, _, _)
storeEntries(entries, i, result) ==
    IF i > Len(entries) THEN result
    ELSE storeEntries(entries, i + 1, Put(result, entries[i].ch, entries[i].freq))

\* numValues, the first field of the header as password decrypts it
headerCount(bits, password) ==
    readField(bits, 1, PasswordStream(password), 32).value

\* the table returned and the position of the next bit to read
readEncryptedFileHeader(bits, password) ==
    LET numValues == readField(bits, 1, PasswordStream(password), 32)
        entries   == readEntries(bits, 33, numValues.x, 0, numValues.value)
    IN  [table |-> Put(storeEntries(entries, 1, EmptyMap), PSEUDO_EOF, 1),
         pos |-> 33 + 40 * Len(entries)]

(***************************************************************************)
(* The orchestrators.                                                      *)
(***************************************************************************)
\* the bits handed on through the password stream from state x
RECURSIVE cipherBits(_, _, _)
cipherBits(x, bits, i) ==
    IF i > Len(bits) THEN << >>
    ELSE LET x2 == engine(x)
         IN  <<nextBit(x2, bits[i])>> \o cipherBits(x2, bits, i + 1)

\* a compress that passes the payload through the password stream as well
compress_cipherAll(infile, password, tie, open) ==
    LET freqMap == getFrequencyTable(infile)
        tree    == buildEncodingTree(freqMap, tie)
        header  == writeEncryptedFileHeader(freqMap, password, open)
        payload == encodeFile(infile, tree.heap, tree.root, open)
    IN  [status |-> header.status,
         freqMap |-> freqMap, heap |-> tree.heap, root |-> tree.root,
         encodeMap |-> payload.encodeMap,
         bits |-> IF open
                    THEN header.bits
                           \o cipherBits(headerBits(freqMap, password).x,
                                         payload.bits, 1)
                    ELSE << >>,
         deleted |-> IF open THEN freeTree(tree.heap, tree.root) ELSE << >>]

\* An error raised by writeEncryptedFileHeader or encodeFile leaves compress
\* at once: the statements after the call, freeTree among them, do not run.
compress(infile, password, tie, open) ==
    LET freqMap == getFrequencyTable(infile)
        tree    == buildEncodingTree(freqMap, tie)
        header  == writeEncryptedFileHeader(freqMap, password, open)
        payload == encodeFile(infile, tree.heap, tree.root, open)
    IN  IF header.status = "error"
          THEN [status |-> "error", freqMap |-> freqMap, heap |-> tree.heap,
                root |-> tree.root, encodeMap |-> EmptyMap, bits |-> << >>,
                deleted |-> << >>]
        ELSE IF payload.status = "error"
          THEN [status |-> "error", freqMap |-> freqMap, heap |-> tree.heap,
                root |-> tree.root, encodeMap |-> payload.encodeMap,
                bits |-> header.bits, deleted |-> << >>]
        ELSE [status |-> "returned", freqMap |-> freqMap, heap |-> tree.heap,
              root |-> tree.root, encodeMap |-> payload.encodeMap,
              bits |-> header.bits \o payload.bits,
              deleted |-> freeTree(tree.heap, tree.root)]

\* decodeFile that never leaves its loop never reaches freeTree
decompress(bits, password, tie) ==
    LET header == readEncryptedFileHeader(bits, password)
        tree   == buildEncodingTree(header.table, tie)
        result == decodeFile(bits, header.pos, tree.heap, tree.root)
    IN  [status |-> result.status, freqMap |-> header.table, heap |-> tree.heap,
         root |-> tree.root, out |-> result.out, pos |-> result.pos,
         deleted |-> IF result.status = "returned"
                       THEN freeTree(tree.heap, tree.root) ELSE << >>]

(***************************************************************************)
(* The state: the files and arguments of a client of HuffmanEncoding.h,    *)
(* and what the call it made last produced.                                *)
(***************************************************************************)
VARIABLES
    source,       \* the bytes of the input file
    password,     \* the password typed at compress or writeEncryptedFileHeader
    tie,          \* how the priority queue orders equal priorities
    outfileOpen,  \* whether the output bit stream is open
    frequencies,  \* the frequency table of the writer's side
    heap,         \* the nodes allocated by the last buildEncodingTree
    root,         \* the root it returned, NULL before
    deleted,      \* the nodes deleted since, in order
    encodeMap,    \* the code table fillMap derived
    channel,      \* the bits of the compressed file
    truncated,    \* whether the compressed file was cut short
    dpassword,    \* the password typed at the reader
    table,        \* the table readEncryptedFileHeader returned
    readPos,      \* how many readBit calls the reader made
    sink,         \* the bytes the decoder wrote
    outcome,      \* how the last call ended
    pc            \* the call made last

vars == <<source, password, tie, outfileOpen, frequencies, heap, root, deleted,
          encodeMap, channel, truncated, dpassword, table, readPos, sink,
          outcome, pc>>

\* the byte sources of length up to MaxLen
Sources == UNION {[1..n -> Bytes] : n \in 0..MaxLen}

\* the frequency tables a caller supplies: bytes with a small or a large
\* count, with or without the sentinel
Tables ==
    LET Counts == (1..MaxCount) \cup {BigCount}
        ByteTables == UNION {[K -> Counts] : K \in SUBSET Bytes}
    IN  {Put(t, PSEUDO_EOF, 1) : t \in ByteTables}
          \cup {t \in ByteTables : DOMAIN t # {}}

TiePolicies == {"fifo", "lifo"}

Init ==
    /\ \/ source \in Sources /\ frequencies = EmptyMap /\ outfileOpen \in BOOLEAN
       \/ source = << >> /\ frequencies \in Tables /\ outfileOpen = TRUE
    /\ password \in Passwords
    /\ tie \in TiePolicies
    /\ heap = << >>
    /\ root = NULL
    /\ deleted = << >>
    /\ encodeMap = EmptyMap
    /\ channel = << >>
    /\ truncated = FALSE
    /\ dpassword = << >>
    /\ table = EmptyMap
    /\ readPos = 0
    /\ sink = << >>
    /\ outcome = "none"
    /\ pc = "init"

GetFrequencyTable ==
    /\ pc = "init"
    /\ frequencies = EmptyMap
    /\ frequencies' = getFrequencyTable(source)
    /\ outcome' = "returned"
    /\ pc' = "counted"
    /\ UNCHANGED <<source, password, tie, outfileOpen, heap, root, deleted,
                   encodeMap, channel, truncated, dpassword, table, readPos, sink>>

BuildEncodingTree ==
    /\ pc \in {"init", "counted"}
    /\ frequencies # EmptyMap
    /\ LET tree == buildEncodingTree(frequencies, tie)
       IN  /\ heap' = tree.heap
           /\ root' = tree.root
    /\ deleted' = << >>
    /\ outcome' = "returned"
    /\ pc' = "built"
    /\ UNCHANGED <<source, password, tie, outfileOpen, frequencies, encodeMap,
                   channel, truncated, dpassword, table, readPos, sink>>

\* the files encodeFile is given: the one the table was counted from, or
\* another one
EncodeInputs == {source} \cup {<<b>> : b \in Bytes}

EncodeFile(infile) ==
    /\ pc = "built"
    /\ LET r == encodeFile(infile, heap, root, outfileOpen)
       IN  /\ encodeMap' = r.encodeMap
           /\ channel' = FileBits(r.bits)
           /\ outcome' = r.status
    /\ source' = infile
    /\ pc' = "encoded"
    /\ UNCHANGED <<password, tie, outfileOpen, frequencies, heap, root, deleted,
                   truncated, dpassword, table, readPos, sink>>

FreeTree ==
    /\ pc \in {"built", "encoded"}
    /\ deleted' = freeTree(heap, root)
    /\ outcome' = "returned"
    /\ pc' = "freed"
    /\ UNCHANGED <<source, password, tie, outfileOpen, frequencies, heap, root,
                   encodeMap, channel, truncated, dpassword, table, readPos, sink>>

WriteEncryptedFileHeader ==
    /\ pc \in {"init", "counted"}
    /\ frequencies # EmptyMap
    /\ LET r == writeEncryptedFileHeader(frequencies, password, outfileOpen)
       IN  /\ channel' = FileBits(r.bits)
           /\ outcome' = r.status
    /\ pc' = "headerWritten"
    /\ UNCHANGED <<source, password, tie, outfileOpen, frequencies, heap, root,
                   deleted, encodeMap, truncated, dpassword, table, readPos, sink>>

ReadEncryptedFileHeader(p) ==
    /\ pc = "headerWritten"
    /\ outcome = "returned"
    /\ headerCount(channel, p) <= MaxEntries
    /\ LET r == readEncryptedFileHeader(channel, p)
       IN  /\ table' = r.table
           /\ readPos' = r.pos - 1
    /\ dpassword' = p
    /\ outcome' = "returned"
    /\ pc' = "headerRead"
    /\ UNCHANGED <<source, password, tie, outfileOpen, frequencies, heap, root,
                   deleted, encodeMap, channel, truncated, sink>>

Compress ==
    /\ pc = "init"
    /\ frequencies = EmptyMap
    /\ LET r == compress(source, password, tie, outfileOpen)
       IN  /\ frequencies' = r.freqMap
           /\ heap' = r.heap
           /\ root' = r.root
           /\ deleted' = r.deleted
           /\ encodeMap' = r.encodeMap
           /\ channel' = FileBits(r.bits)
           /\ outcome' = r.status
    /\ pc' = "compressed"
    /\ UNCHANGED <<source, password, tie, outfileOpen, truncated, dpassword,
                   table, readPos, sink>>

\* the compressed file loses its last k bytes
Truncate(k) ==
    /\ pc = "compressed"
    /\ outcome = "returned"
    /\ ~truncated
    /\ k * 8 <= Len(channel)
    /\ channel' = SubSeq(channel, 1, Len(channel) - k * 8)
    /\ truncated' = TRUE
    /\ UNCHANGED <<source, password, tie, outfileOpen, frequencies, heap, root,
                   deleted, encodeMap, dpassword, table, readPos, sink, outcome, pc>>

Decompress(p) ==
    /\ pc = "compressed"
    /\ outcome = "returned"
    /\ headerCount(channel, p) <= MaxEntries
    /\ LET r == decompress(channel, p, tie)
       IN  /\ table' = r.freqMap
           /\ heap' = r.heap
           /\ root' = r.root
           /\ deleted' = r.deleted
           /\ readPos' = r.pos - 1
           /\ sink' = r.out
           /\ outcome' = r.status
    /\ dpassword' = p
    /\ pc' = "decompressed"
    /\ UNCHANGED <<source, password, tie, outfileOpen, frequencies, encodeMap,
                   channel, truncated>>

Next ==
    \/ GetFrequencyTable
    \/ BuildEncodingTree
    \/ \E infile \in EncodeInputs : EncodeFile(infile)
    \/ FreeTree
    \/ WriteEncryptedFileHeader
    \/ \E p \in Passwords : ReadEncryptedFileHeader(p)
    \/ Compress
    \/ \E k \in 1..MaxCut : Truncate(k)
    \/ \E p \in Passwords : Decompress(p)

Spec == Init /\ [][Next]_vars

(***************************************************************************)
(* Properties.                                                             *)
(***************************************************************************)
IsPrefix(a, b) == Len(a) <= Len(b) /\ SubSeq(b, 1, Len(a)) = a

\* how often byte b occurs in file
Occurrences(file, b) == Cardinality({i \in 1..Len(file) : file[i] = b})

\* the bytes of file
BytesOf(file) == {file[i] : i \in 1..Len(file)}

\* the sum of the counts of table t over the keys S
RECURSIVE SumCounts(_, _)
SumCounts(t, S) ==
    IF S = {} THEN 0
    ELSE LET k == CHOOSE x \in S : TRUE
         IN  t[k] + SumCounts(t, S \ {k})

\* the number of header bits of a table of N entries besides the sentinel
HeaderLen(t) == 32 + 40 * (Cardinality(DOMAIN t) - 1)

\* C1: decompress under the password of compress, on the file compress
\* wrote, returns and has written exactly the bytes of the source.
RoundTrip ==
    (pc = "decompressed" /\ ~truncated /\ dpassword = password)
        => (outcome = "returned" /\ sink = source)

RoundTripWitness ==
    /\ pc = "decompressed" /\ ~truncated /\ dpassword = password
    /\ password # << >>
    /\ Len(source) >= 2 /\ 255 \in BytesOf(source) /\ 97 \in BytesOf(source)
    /\ sink = source

\* C2: readEncryptedFileHeader under the password of the writer returns the
\* table that was written and has read exactly the bits that were written.
HeaderRoundTrip ==
    (pc = "headerRead" /\ dpassword = password)
        => (table = frequencies /\ readPos = Len(channel)
              /\ readPos = HeaderLen(frequencies))

HeaderRoundTripWitness ==
    /\ pc = "headerRead" /\ dpassword = password /\ password # << >>
    /\ Cardinality(DOMAIN frequencies) = 4
    /\ \E k \in DOMAIN frequencies : frequencies[k] = BigCount
    /\ table = frequencies

\* C3: in the code table fillMap derives from the tree of a non-empty
\* table, every key of the table has a code and no code is a prefix of, or
\* equal to, the code of another key.
PrefixFree ==
    (pc = "encoded")
        => /\ DOMAIN encodeMap = DOMAIN frequencies
           /\ \A a, b \in DOMAIN encodeMap :
                a # b => ~IsPrefix(encodeMap[a], encodeMap[b])

PrefixFreeWitness ==
    /\ pc = "encoded"
    /\ Cardinality(DOMAIN encodeMap) = 4
    /\ \E a, b \in DOMAIN encodeMap : Len(encodeMap[a]) < Len(encodeMap[b])

\* the code lengths of the tree: the depth of each leaf
CodeLengths(h, r) ==
    LET codes == fillMap(EmptyMap, h, r, << >>)
    IN  [k \in DOMAIN codes |-> Len(codes[k])]

\* sum over the keys S of count times code length
RECURSIVE Cost(_, _, _)
Cost(t, lens, S) ==
    IF S = {} THEN 0
    ELSE LET k == CHOOSE x \in S : TRUE
         IN  t[k] * lens[k] + Cost(t, lens, S \ {k})

\* sum over the keys S of 2^(D - lens[k])
RECURSIVE KraftSum(_, _, _)
KraftSum(lens, D, S) ==
    IF S = {} THEN 0
    ELSE LET k == CHOOSE x \in S : TRUE
         IN  2 ^ (D - lens[k]) + KraftSum(lens, D, S \ {k})

\* the code lengths of the prefix-free binary codes for the keys S with no
\* code longer than the number of keys (Kraft's inequality)
PrefixCodeLengths(S) ==
    LET D == Cardinality(S)
    IN  {lens \in [S -> 0..D] : KraftSum(lens, D, S) <= 2 ^ D}

\* C4: the total weighted code length of the tree buildEncodingTree returns
\* is the least among the prefix-free binary codes for the keys and counts
\* of the table, under either order of equal priorities.
Optimal ==
    (pc = "built")
        => \A lens \in PrefixCodeLengths(DOMAIN frequencies) :
             Cost(frequencies, CodeLengths(heap, root), DOMAIN frequencies)
               <= Cost(frequencies, lens, DOMAIN frequencies)

OptimalWitness ==
    /\ pc = "built" /\ tie = "lifo"
    /\ Cardinality(DOMAIN frequencies) = 4
    /\ \E a, b \in DOMAIN frequencies : a # b /\ frequencies[a] = frequencies[b]
    /\ \E a \in DOMAIN frequencies : frequencies[a] = MaxCount

\* C5: in the tree buildEncodingTree returns a leaf weighs the count of its
\* character, an internal node weighs the sum of its two children, and the
\* root weighs the sum of the counts of the table.
WeightConservation ==
    (pc = "built")
        => /\ \A n \in 1..Len(heap) :
                IF IsLeaf(heap, n)
                  THEN /\ heap[n].character \in DOMAIN frequencies
                       /\ heap[n].weight = frequencies[heap[n].character]
                  ELSE heap[n].weight
                         = heap[heap[n].zero].weight + heap[heap[n].one].weight
           /\ heap[root].weight = SumCounts(frequencies, DOMAIN frequencies)

WeightConservationWitness ==
    /\ pc = "built"
    /\ Len(heap) = 7
    /\ \E n \in 1..Len(heap) : heap[n].weight > BigCount

\* C6: the table of getFrequencyTable holds the sentinel with count 1 and,
\* besides it, exactly the bytes of the input with their numbers of
\* occurrences (the sentinel alone for the empty input); the table of
\* readEncryptedFileHeader holds the sentinel with count 1 whatever the bits
\* and the password.
FrequencyInvariant ==
    /\ (pc = "counted")
         => /\ DOMAIN frequencies = BytesOf(source) \cup {PSEUDO_EOF}
            /\ frequencies[PSEUDO_EOF] = 1
            /\ \A b \in BytesOf(source) : frequencies[b] = Occurrences(source, b)
            /\ (source = << >> => DOMAIN frequencies = {PSEUDO_EOF})
    /\ (pc \in {"headerRead", "decompressed"})
         => (PSEUDO_EOF \in DOMAIN table /\ table[PSEUDO_EOF] = 1)

FrequencyInvariantWitness ==
    /\ pc = "counted"
    /\ Len(source) = MaxLen
    /\ source[2] = 255
    /\ \E b \in BytesOf(source) : Occurrences(source, b) >= 2

\* C7: a decompress whose bit channel is exhausted before the sentinel leaf
\* is reached ends in an error.
TruncatedIsFatal ==
    (pc = "decompressed" /\ readPos > Len(channel)) => outcome = "error"

\* the low bits the engine returns in its next n calls from state x, and the
\* state after them
RECURSIVE KeyStream(_, _)
KeyStream(x, n) ==
    IF n = 0 THEN [bits |-> << >>, x |-> x]
    ELSE IF n = 1 THEN LET x2 == engine(x) IN [bits |-> <<x2 % 2>>, x |-> x2]
    ELSE LET h  == n \div 2
             hi == KeyStream(x, h)
             lo == KeyStream(hi.x, n - h)
         IN  [bits |-> hi.bits \o lo.bits, x |-> lo.x]

\* the header of table t before the password stream: the number of entries
\* besides the sentinel, then each entry's character and count
RECURSIVE PlainEntries(_, _, _)
PlainEntries(t, keys, i) ==
    IF i > Len(keys) THEN << >>
    ELSE IF keys[i] = PSEUDO_EOF THEN PlainEntries(t, keys, i + 1)
    ELSE IntBits(keys[i], 8) \o IntBits(t[keys[i]], 32)
           \o PlainEntries(t, keys, i + 1)

PlainHeader(t) ==
    IntBits(Cardinality(DOMAIN t) - 1, 32)
      \o PlainEntries(t, SortedKeys(DOMAIN t), 1)

\* the codes of the bytes of file in order
RECURSIVE PayloadCodes(_, _, _)
PayloadCodes(file, i, codes) ==
    IF i > Len(file) THEN << >>
    ELSE CodeBits(codes[file[i]]) \o PayloadCodes(file, i + 1, codes)

\* C8: the files compress writes for one source under two passwords have
\* the same length and the same bits after the header; these bits are the
\* codes of the bytes followed by the sentinel's code, and the header is
\* the plain header XORed with the password stream.
OnlyHeaderDependsOnPassword ==
    (pc = "compressed" /\ outcome = "returned" /\ ~truncated)
        => LET N       == HeaderLen(frequencies)
               payload == PayloadCodes(source, 1, encodeMap)
                            \o CodeBits(encodeMap[PSEUDO_EOF])
               plain   == PlainHeader(frequencies)
               key     == KeyStream(PasswordStream(password), N).bits
           IN  /\ N = 32 + 40 * Cardinality(BytesOf(source))
               /\ channel = FileBits(SubSeq(channel, 1, N) \o payload)
               /\ \A i \in 1..N : channel[i] = (plain[i] + key[i]) % 2
               /\ \A p2 \in Passwords :
                    LET other == FileBits(compress(source, p2, tie, TRUE).bits)
                    IN  /\ Len(other) = Len(channel)
                        /\ \A i \in (N + 1)..Len(channel) : other[i] = channel[i]

OnlyHeaderDependsOnPasswordWitness ==
    /\ pc = "compressed" /\ outcome = "returned" /\ ~truncated
    /\ Len(source) >= 2 /\ Cardinality(BytesOf(source)) >= 2
    /\ Len(channel) > HeaderLen(frequencies)
    /\ \E p2 \in Passwords :
         SubSeq(FileBits(compress(source, p2, tie, TRUE).bits), 1, 32)
           # SubSeq(channel, 1, 32)

\* C9: when compress or decompress has ended, by a return or by an error,
\* every node buildEncodingTree allocated has been deleted exactly once.
TreeReleasedOnce ==
    (pc \in {"compressed", "decompressed"} /\ outcome \in {"returned", "error"})
        => \A n \in 1..Len(heap) :
             Cardinality({i \in 1..Len(deleted) : deleted[i] = n}) = 1

\* C10: encodeFile ends in an error when its source holds a byte that has
\* no leaf in the tree, and so no code in the table.
EncoderFailsFast ==
    (pc = "encoded" /\ \E b \in BytesOf(source) : b \notin DOMAIN encodeMap)
        => outcome = "error"

====
